---- MODULE Spec2Model ----
(***************************************************************************)
(* Hotel booking platform (backend/services.py, models.py, database.py).   *)
(* BookingService.create_booking is modelled step by step for each worker  *)
(* thread: it takes the service-wide lock, runs the per-email rate         *)
(* limiter, validates room and dates, looks for an overlapping confirmed   *)
(* booking, stores the new booking and leaves the `with` block.            *)
(* cancel_booking takes no lock and is one step.                           *)
(* HotelService and SearchService work on stores of their own; the search  *)
(* service keeps a city index, a name index and a result cache.            *)
(***************************************************************************)
EXTENDS Integers, Sequences, FiniteSets, TLC

(* ---------------- bounds of the model ---------------- *)
\* calls of create_booking in one behaviour of Spec / SpecCreate
MaxCalls == 3
\* calls of create_booking in one behaviour of SpecRate
MaxRateCalls == 7
\* the clock advances at most MaxTicks times
MaxTicks == 3
\* date.today() advances up to day MaxDay
MaxDay == 2

(* ---------------- program constants ---------------- *)
\* services.py:152  self._rate_limit_window = timedelta(seconds=60)
RateLimitWindow == 60
\* services.py:153  self._rate_limit_max = 5
RateLimitMax == 5
\* services.py:53  self._cache_ttl = timedelta(seconds=60)
CacheTTL == 60

(* ---------------- universe of the model ---------------- *)
\* request threads; Workers serve the API, all of them run the concurrency test
Threads == {"t1", "t2", "t3"}
Workers == {"t1", "t2"}
Emails == {"a@x.in", "b@x.in", "c@x.in"}
\* room ids of the booking service's store, and one id that resolves to nothing
RoomIds == {"r1", "r2"}
UnknownRoom == "r0"
\* the clock advances by half a window: a timestamp is 0, 30, 60, 90.. seconds old
ClockStep == RateLimitWindow \div 2
MaxClock == MaxTicks * ClockStep

CONFIRMED == "confirmed"
CANCELLED == "cancelled"
PENDING == "pending"

\* models.py:75-81 BookingRequest
BookingRequest(r, n, e, ci, co) ==
    [room_id |-> r, guest_name |-> n, guest_email |-> e,
     check_in_date |-> ci, check_out_date |-> co]

GuestName(e) == IF e = "a@x.in" THEN "Asha" ELSE IF e = "b@x.in" THEN "Bala" ELSE "Chitra"

\* the guest whose client a thread is
GuestOf(t) == IF t = "t1" THEN "a@x.in" ELSE IF t = "t2" THEN "b@x.in" ELSE "c@x.in"

\* (check_in, check_out) pairs; day 0 is in the past from the start, day 1 is
\* the day of construction.  Valid stays that touch, overlap and nest, a
\* same-day stay, an inverted range and a stay that starts in the past.
Stays == {<<1, 2>>, <<2, 3>>, <<1, 3>>, <<2, 2>>, <<2, 1>>, <<0, 1>>}

\* the requests of Spec and SpecCreate: every stay on room r1, one stay on
\* room r2 and one on the room that does not exist
Requests ==
    { BookingRequest("r1", GuestName(e), e, d[1], d[2]) : e \in Emails, d \in Stays }
    \cup { BookingRequest(r, GuestName(e), e, 1, 3) :
             r \in {"r2", UnknownRoom}, e \in Emails }

\* the requests of SpecRate: guest a@x.in asks room r1 for a valid stay, an
\* inverted range and a stay in the past, and asks for a room that does not
\* exist; guest b@x.in asks room r1 for the valid stay
RateRequests ==
    { BookingRequest("r1", GuestName("a@x.in"), "a@x.in", d[1], d[2]) :
        d \in {<<1, 2>>, <<2, 1>>, <<0, 1>>} }
    \cup { BookingRequest(UnknownRoom, GuestName("a@x.in"), "a@x.in", 1, 2),
           BookingRequest("r1", GuestName("b@x.in"), "b@x.in", 1, 2) }

\* test_booking_logic.py:275-283 the request of the concurrency test: the same
\* room and the same future range for every guest
RaceRequest(e) == BookingRequest("r1", GuestName(e), e, 1, 3)

NoRequest == BookingRequest(UnknownRoom, "", "", 0, 0)

\* database.py:150-161 the rooms of the store (id -> hotel, nightly price)
InitialRooms ==
    [r \in RoomIds |->
        IF r = "r1" THEN [hotel_id |-> "h1", price |-> 8]
                    ELSE [hotel_id |-> "h2", price |-> 3]]

(* ---------------- text ---------------- *)
\* a str is the sequence of its characters; None is no str
None == <<"None">>

Goa == <<"G", "o", "a">>
GOA == <<"G", "O", "A">>
Go == <<"G", "o">>
SeaInn == <<"S", "e", "a", " ", "I", "n", "n">>
Inn == <<"I", "n", "n">>
InnInn == <<"I", "n", "n", " ", " ", "i", "n", "n">>
Sun == <<"S", "u", "n">>
SeUn == <<"S", "e", " ", "u", "n">>

\* str.lower(), character by character
LowerChar(c) ==
    CASE c = "G" -> "g" [] c = "O" -> "o" [] c = "A" -> "a"
      [] c = "S" -> "s" [] c = "I" -> "i" [] c = "B" -> "b"
      [] c = "C" -> "c" [] OTHER -> c

lower(s) == [i \in DOMAIN s |-> LowerChar(s[i])]

\* the characters of a guest's name
chars(n) ==
    CASE n = "Asha" -> <<"A", "s", "h", "a">>
      [] n = "Bala" -> <<"B", "a", "l", "a">>
      [] n = "Chitra" -> <<"C", "h", "i", "t", "r", "a">>
      [] OTHER -> << >>

\* the length of the run of non-blank characters a str starts with
RunLen(s) ==
    IF \E i \in DOMAIN s : s[i] = " "
    THEN (CHOOSE i \in DOMAIN s : s[i] = " " /\ \A j \in 1 .. i - 1 : s[j] # " ") - 1
    ELSE Len(s)

\* str.split(): the runs of non-blank characters, in order
RECURSIVE split(_)
split(s) ==
    IF s = << >> THEN << >>
    ELSE IF Head(s) = " " THEN split(Tail(s))
    ELSE <<SubSeq(s, 1, RunLen(s))>> \o split(SubSeq(s, RunLen(s) + 1, Len(s)))

\* `sub in s` for two strs
contains(sub, s) ==
    \E i \in 0 .. Len(s) - Len(sub) : SubSeq(s, i + 1, i + Len(sub)) = sub

\* seq[:limit], with Python's meaning of a negative limit
slice(seq, limit) ==
    IF limit >= 0
    THEN SubSeq(seq, 1, IF limit < Len(seq) THEN limit ELSE Len(seq))
    ELSE SubSeq(seq, 1, Len(seq) + limit)

(* ---------------- hotels ---------------- *)
\* models.py:39-48 Hotel: id, name, city and the ids of its rooms
Hotel(i, n, c, rs) == [id |-> i, name |-> n, city |-> c, rooms |-> rs]

\* database.py:104-161 every DatabaseManager creates hotels and rooms of its
\* own, with fresh uuid4 ids: the ones of HotelService.db
HotelServiceHotels == <<Hotel("g1", SeaInn, Goa, {"y1"})>>
HotelServiceRooms == {"y1"}

\* ... and the ones of SearchService.db
SearchServiceHotels == <<Hotel("s1", SeaInn, Goa, {"x1"}), Hotel("s2", Inn, GOA, {"x2"})>>

\* ids of the hotels the search service's store can hold
HotelIds == {"s1", "s2", "s3"}

VARIABLES
    now,                \* datetime.utcnow() / datetime.now(), in seconds
    today,              \* date.today(), a day number
    hotels,             \* BookingService.db.hotels (ids)
    rooms,              \* BookingService.db.rooms
    bookings,           \* BookingService.db.bookings, in insertion order; id = position
    requests_by_email,  \* BookingService._requests_by_email
    booking_lock,       \* BookingService._booking_lock is held
    pc,                 \* where each thread is in create_booking
    req,                \* each thread's booking_request
    result,             \* how each thread's call ends ("none" until decided)
    ret,                \* id of the booking a thread's call returns, 0 if none
    loc,                \* each thread's reads of the clock: now, today, created_at
    ncalls,             \* calls of create_booking so far
    attempts,           \* history: each email's attempts of the trailing window: time, outcome
    snap,               \* history: store and rate-limit state when a thread got the lock
    booking_results,    \* the concurrency test's list of returned bookings (ids)
    exceptions,         \* the concurrency test's list of raised errors
    listing,            \* the last get_bookings call: filter and the ids returned
    success,            \* the last cancel_booking of a caller that keeps the answer:
                        \* the id, the status it met and what was returned
    hotel_db,           \* HotelService.db: hotels (a dict, in insertion order) and rooms
    search_db,          \* SearchService.db.hotels (a dict, in insertion order)
    city_index,         \* SearchService._city_index: lower-cased city -> list of hotels
    name_index,         \* SearchService._name_index: lower-cased word -> list of hotels
    cache,              \* SearchService._cache: key -> results, expires_at
    hash_order,         \* the order in which a set of hotel ids is iterated
    found,              \* the last search_hotels call: query, outcome, served from cache
                        \* or not, found an expired entry or not
    answered,           \* history: query -> the result computed for it since the last
                        \* rebuild, and when
    rebuilt,            \* history: the store was not written since the indexes were built
    indexed,            \* history: the store as the last index build read it
    searching,          \* a search_hotels call that runs beside a rebuild: where it
                        \* is, its query and the results it computed
    rebuilding          \* a rebuild_indexes call that runs beside searches: where it
                        \* is and how many hotels it has indexed

vars == <<now, today, hotels, rooms, bookings, requests_by_email, booking_lock,
          pc, req, result, ret, loc, ncalls, attempts, snap,
          booking_results, exceptions, listing, success,
          hotel_db, search_db, city_index, name_index, cache, hash_order, found,
          answered, rebuilt, indexed, searching, rebuilding>>

threads == <<searching, rebuilding>>
search == <<search_db, city_index, name_index, cache, hash_order, found, answered,
            rebuilt, indexed, threads>>
site == <<hotel_db, search>>

store == <<hotels, rooms>>
clock == <<now, today>>
test == <<booking_results, exceptions, listing>>
call == <<req, result, ret, loc>>

NoCancel == [id |-> 0, was |-> "none", returned |-> FALSE]
NoLocals == [now |-> 0, today |-> 0, created |-> 0]
NoSnap == [bookings |-> << >>, rl |-> << >>]
NoListing == [guest_name |-> <<"None">>, results |-> << >>]

Max(a, b) == IF a > b THEN a ELSE b

(* ---------------- BookingService helpers ---------------- *)

\* a limiter that lets one attempt too many through (> for >=)
is_rate_limited_off_by_one(timestamps, tnow) ==
    LET window_start == tnow - RateLimitWindow
        kept == SelectSeq(timestamps, LAMBDA x : x >= window_start)
    IN  IF Len(kept) > RateLimitMax
        THEN [limited |-> TRUE, timestamps |-> kept]
        ELSE [limited |-> FALSE, timestamps |-> Append(kept, tnow)]

\* a limiter that checks the window but never records the attempt
is_rate_limited_no_record(timestamps, tnow) ==
    LET window_start == tnow - RateLimitWindow
        kept == SelectSeq(timestamps, LAMBDA x : x >= window_start)
    IN  [limited |-> Len(kept) >= RateLimitMax, timestamps |-> kept]

\* a limiter that records every attempt, the ones it refuses too
is_rate_limited_records_refused(timestamps, tnow) ==
    LET window_start == tnow - RateLimitWindow
        kept == SelectSeq(timestamps, LAMBDA x : x >= window_start)
    IN  [limited |-> Len(kept) >= RateLimitMax, timestamps |-> Append(kept, tnow)]

\* a limiter that never drops a timestamp
is_rate_limited_no_prune(timestamps, tnow) ==
    IF Len(timestamps) >= RateLimitMax
    THEN [limited |-> TRUE, timestamps |-> timestamps]
    ELSE [limited |-> FALSE, timestamps |-> Append(timestamps, tnow)]

\* services.py:156-165 _is_rate_limited: the list kept for the email and the answer
is_rate_limited(timestamps, tnow) ==
    LET window_start == tnow - RateLimitWindow
        kept == SelectSeq(timestamps, LAMBDA x : x >= window_start)
    IN  IF Len(kept) >= RateLimitMax
        THEN [limited |-> TRUE, timestamps |-> kept]
        ELSE [limited |-> FALSE, timestamps |-> Append(kept, tnow)]

\* an overlap check that only asks whether the new check-in falls in a stay
has_overlapping_booking_start_only(bks, room_id, check_in, check_out) ==
    \E i \in DOMAIN bks :
        /\ bks[i].room_id = room_id
        /\ bks[i].status = CONFIRMED
        /\ bks[i].check_in_date <= check_in /\ check_in < bks[i].check_out_date

\* an overlap check that counts cancelled bookings too
has_overlapping_booking_any_status(bks, room_id, check_in, check_out) ==
    \E i \in DOMAIN bks :
        /\ bks[i].room_id = room_id
        /\ ~(check_out <= bks[i].check_in_date \/ check_in >= bks[i].check_out_date)

\* an overlap check on closed intervals (< for <=, > for >=)
has_overlapping_booking_closed(bks, room_id, check_in, check_out) ==
    \E i \in DOMAIN bks :
        /\ bks[i].room_id = room_id
        /\ bks[i].status = CONFIRMED
        /\ ~(check_out < bks[i].check_in_date \/ check_in > bks[i].check_out_date)

\* services.py:216-223 _has_overlapping_booking
has_overlapping_booking(bks, room_id, check_in, check_out) ==
    \E i \in DOMAIN bks :
        /\ bks[i].room_id = room_id
        /\ bks[i].status = CONFIRMED
        /\ ~(check_out <= bks[i].check_in_date \/ check_in >= bks[i].check_out_date)

\* a price without the one-night minimum
total_price_no_minimum(price, check_in, check_out) ==
    price * (check_out - check_in)

\* services.py:196-199 price of the stay
total_price(price, check_in, check_out) ==
    LET nights == check_out - check_in
        nights_charged == Max(1, nights)
    IN  price * nights_charged

\* services.py:202-210 Booking(...), models.py:55-66 (status defaults to confirmed)
Booking(q, room, created) ==
    [room_id |-> q.room_id, hotel_id |-> room.hotel_id,
     guest_name |-> q.guest_name, guest_email |-> q.guest_email,
     check_in_date |-> q.check_in_date, check_out_date |-> q.check_out_date,
     total_price |-> total_price(room.price, q.check_in_date, q.check_out_date),
     status |-> CONFIRMED, created_at |-> created]

\* date checks that take a stay of no nights for an invalid range (>= for >)
validate_dates_same_day(q, tday) ==
    IF q.check_in_date >= q.check_out_date THEN "range"
    ELSE IF q.check_in_date < tday THEN "past"
    ELSE "ok"

\* date checks that take a stay that starts today for past (<= for <)
validate_dates_today(q, tday) ==
    IF q.check_in_date > q.check_out_date THEN "range"
    ELSE IF q.check_in_date <= tday THEN "past"
    ELSE "ok"

\* services.py:183-188 the two date checks, in order
validate_dates(q, tday) ==
    IF q.check_in_date > q.check_out_date THEN "range"
    ELSE IF q.check_in_date < tday THEN "past"
    ELSE "ok"

\* a validation that looks at the dates before it looks for the room
validate_dates_first(rms, q, tday) ==
    IF validate_dates(q, tday) # "ok" THEN validate_dates(q, tday)
    ELSE IF q.room_id \notin DOMAIN rms THEN "notfound" ELSE "ok"

\* services.py:178-188 room lookup, then the date checks
validate(rms, q, tday) ==
    IF q.room_id \notin DOMAIN rms THEN "notfound" ELSE validate_dates(q, tday)

(* ---------------- the stores of the other services ---------------- *)

\* dict[hotel.id] = hotel on a dict kept in insertion order: a new key goes to
\* the end, a known key keeps its place
dict_set(db, h) ==
    IF \E k \in DOMAIN db : db[k].id = h.id
    THEN [k \in DOMAIN db |-> IF db[k].id = h.id THEN h ELSE db[k]]
    ELSE Append(db, h)

dict_keys(db) == {db[k].id : k \in DOMAIN db}

dict_get(db, i) == db[CHOOSE k \in DOMAIN db : db[k].id = i]

\* services.py:39-41 HotelService.get_room_by_id: self.db.rooms.get(room_id),
\* the room's id or None
get_room_by_id(db, room_id) == IF room_id \in db.rooms THEN <<room_id>> ELSE None

\* the ids of the rooms listed in the hotels of a store
exposed_rooms(db) == UNION {db[k].rooms : k \in DOMAIN db}

(* ---------------- SearchService helpers ---------------- *)

\* defaultdict(list): index[key].append(hotel)
index_add(index, key, h) ==
    IF key \in DOMAIN index
    THEN [index EXCEPT ![key] = Append(@, h)]
    ELSE [k \in DOMAIN index \cup {key} |-> IF k = key THEN <<h>> ELSE index[k]]

\* services.py:63-66 the hotel is appended to the list of every word of its name
RECURSIVE add_words(_, _, _)
add_words(index, words, h) ==
    IF words = << >> THEN index
    ELSE add_words(index_add(index, Head(words), h), Tail(words), h)

\* an index build that keeps the case of the city
RECURSIVE build_indexes_case_kept(_, _, _)
build_indexes_case_kept(ci, ni, hs) ==
    IF hs = << >> THEN [city |-> ci, name |-> ni]
    ELSE build_indexes_case_kept(index_add(ci, Head(hs).city, Head(hs)),
                                 add_words(ni, split(lower(Head(hs).name)), Head(hs)),
                                 Tail(hs))

\* services.py:56-66 _build_indexes: the hotels of the store, in order, are
\* added to the two indexes it is given
RECURSIVE build_indexes(_, _, _)
build_indexes(ci, ni, hs) ==
    IF hs = << >> THEN [city |-> ci, name |-> ni]
    ELSE build_indexes(index_add(ci, lower(Head(hs).city), Head(hs)),
                       add_words(ni, split(lower(Head(hs).name)), Head(hs)),
                       Tail(hs))

\* `not x` for an Optional[str]
falsy(x) == x = None \/ x = << >>

\* services.py:68-69 _cache_key: city or '', hotel_name or '', limit
cache_key(city, hotel_name, limit) ==
    [city |-> IF falsy(city) THEN << >> ELSE city,
     name |-> IF falsy(hotel_name) THEN << >> ELSE hotel_name,
     limit |-> limit]

\* a lookup that takes an entry for expired at its expiry time already
get_cached_early(ch, key, tnow) ==
    IF key \notin DOMAIN ch THEN [hit |-> FALSE, cache |-> ch]
    ELSE IF tnow >= ch[key].expires_at
    THEN [hit |-> FALSE, cache |-> [k \in DOMAIN ch \ {key} |-> ch[k]]]
    ELSE [hit |-> TRUE, cache |-> ch]

\* a lookup that takes every entry it finds, whatever its expiry time
get_cached_no_expiry(ch, key, tnow) ==
    IF key \in DOMAIN ch THEN [hit |-> TRUE, cache |-> ch]
    ELSE [hit |-> FALSE, cache |-> ch]

\* services.py:71-80 _get_cached: a hit unless the key is absent or expired;
\* an expired entry is removed
get_cached(ch, key, tnow) ==
    IF key \notin DOMAIN ch THEN [hit |-> FALSE, cache |-> ch]
    ELSE IF tnow > ch[key].expires_at
    THEN [hit |-> FALSE, cache |-> [k \in DOMAIN ch \ {key} |-> ch[k]]]
    ELSE [hit |-> TRUE, cache |-> ch]

\* a cache whose entries expire at once
set_cache_no_ttl(ch, key, results, tnow) ==
    [k \in DOMAIN ch \cup {key} |->
        IF k = key THEN [results |-> results, expires_at |-> tnow]
        ELSE ch[k]]

\* services.py:82-83 _set_cache
set_cache(ch, key, results, tnow) ==
    [k \in DOMAIN ch \cup {key} |->
        IF k = key THEN [results |-> results, expires_at |-> tnow + CacheTTL]
        ELSE ch[k]]

\* a city lookup that takes every indexed city the query is part of
city_ids_partial(ci, city) ==
    UNION { {ci[c][k].id : k \in DOMAIN ci[c]} :
            c \in {ic \in DOMAIN ci : contains(lower(city), ic)} }

\* services.py:107-111 the ids in the city's list
city_ids(ci, city) ==
    IF lower(city) \in DOMAIN ci
    THEN {ci[lower(city)][k].id : k \in DOMAIN ci[lower(city)]}
    ELSE {}

\* a name lookup in the other direction: the indexed words that are part of a
\* word of the query
name_ids_reverse(ni, hotel_name) ==
    LET name_words == split(lower(hotel_name))
    IN  UNION { {ni[w][k].id : k \in DOMAIN ni[w]} :
                w \in {iw \in DOMAIN ni :
                         \E j \in DOMAIN name_words : contains(iw, name_words[j])} }

\* services.py:114-123 the ids in the lists of the indexed words that contain
\* a word of the query
name_ids(ni, hotel_name) ==
    LET name_words == split(lower(hotel_name))
    IN  UNION { {ni[w][k].id : k \in DOMAIN ni[w]} :
                w \in {iw \in DOMAIN ni :
                         \E j \in DOMAIN name_words : contains(name_words[j], iw)} }

\* iteration over a set of ids
in_order(ids, order) == SelectSeq(order, LAMBDA i : i \in ids)

\* a combination of the two filters that takes the hotels of either
result_ids_union(ci, ni, city, hotel_name) ==
    IF falsy(hotel_name) THEN city_ids(ci, city)
    ELSE IF falsy(city) THEN name_ids(ni, hotel_name)
    ELSE city_ids(ci, city) \cup name_ids(ni, hotel_name)

\* services.py:103-129 result_ids: the city's ids, the name's ids, or the
\* intersection when both filters are given
result_ids(ci, ni, city, hotel_name) ==
    IF falsy(hotel_name) THEN city_ids(ci, city)
    ELSE IF falsy(city) THEN name_ids(ni, hotel_name)
    ELSE city_ids(ci, city) \cap name_ids(ni, hotel_name)

\* services.py:85-134 search_hotels: what it returns and the cache it leaves;
\* error is the KeyError of line 132 for an indexed id the store has lost
search_hotels(db, ci, ni, ch, order, tnow, city, hotel_name, limit) ==
    LET key == cache_key(city, hotel_name, limit)
        g == get_cached(ch, key, tnow)
        rids == result_ids(ci, ni, city, hotel_name)
        ids == in_order(rids, order)
        listed == slice([k \in DOMAIN ids |-> dict_get(db, ids[k])], limit)
        first == slice(db, limit)
    IN  IF g.hit
        THEN [results |-> ch[key].results, error |-> FALSE, cached |-> TRUE, cache |-> ch]
        ELSE IF falsy(city) /\ falsy(hotel_name)
        THEN [results |-> first, error |-> FALSE, cached |-> FALSE,
              cache |-> set_cache(g.cache, key, first, tnow)]
        ELSE IF ~(rids \subseteq dict_keys(db))
        THEN [results |-> << >>, error |-> TRUE, cached |-> FALSE, cache |-> g.cache]
        ELSE [results |-> listed, error |-> FALSE, cached |-> FALSE,
              cache |-> set_cache(g.cache, key, listed, tnow)]

NotSearching == [pc |-> "idle", city |-> None, name |-> None, limit |-> 0,
                 results |-> << >>, expired |-> FALSE]
NotRebuilding == [pc |-> "idle", n |-> 0]

NoSearch == [city |-> None, name |-> None, limit |-> 0,
             results |-> << >>, error |-> FALSE, cached |-> FALSE, expired |-> FALSE]

(* ---------------- get_bookings ---------------- *)
\* sorted(ids, key=created_at) without reverse: oldest first, equal keys in the
\* order of the list
RECURSIVE sorted_oldest_first(_, _)
sorted_oldest_first(bks, ids) ==
    IF ids = << >> THEN << >>
    ELSE LET rest == sorted_oldest_first(bks, Tail(ids))
             before == SelectSeq(rest, LAMBDA i : bks[i].created_at < bks[Head(ids)].created_at)
             after == SelectSeq(rest, LAMBDA i : bks[i].created_at >= bks[Head(ids)].created_at)
         IN  before \o <<Head(ids)>> \o after

\* services.py:230 sorted(bookings, key=created_at, reverse=True): a stable
\* sort, latest first, equal keys in the order of the list
RECURSIVE sorted_reverse(_, _)
sorted_reverse(bks, ids) ==
    IF ids = << >> THEN << >>
    ELSE LET rest == sorted_reverse(bks, Tail(ids))
             before == SelectSeq(rest, LAMBDA i : bks[i].created_at > bks[Head(ids)].created_at)
             after == SelectSeq(rest, LAMBDA i : bks[i].created_at <= bks[Head(ids)].created_at)
         IN  before \o <<Head(ids)>> \o after

\* services.py:225-230 get_bookings: the ids of the stored bookings, filtered
\* by guest name when a filter is given, latest first
get_bookings(bks, guest_name) ==
    LET all == [i \in DOMAIN bks |-> i]
        kept == IF falsy(guest_name) THEN all
                ELSE SelectSeq(all, LAMBDA i :
                         contains(lower(guest_name), lower(chars(bks[i].guest_name))))
    IN  sorted_reverse(bks, kept)

(* ---------------- the state after construction ---------------- *)
InitOrdered(order) ==
    /\ now = 0
    /\ today = 1
    /\ hotels = {"h1", "h2"}
    /\ rooms = InitialRooms
    /\ bookings = << >>
    /\ requests_by_email = [e \in Emails |-> << >>]
    /\ booking_lock = FALSE
    /\ pc = [t \in Threads |-> "idle"]
    /\ req = [t \in Threads |-> NoRequest]
    /\ result = [t \in Threads |-> "none"]
    /\ ret = [t \in Threads |-> 0]
    /\ loc = [t \in Threads |-> NoLocals]
    /\ ncalls = 0
    /\ attempts = [e \in Emails |-> << >>]
    /\ snap = [t \in Threads |-> NoSnap]
    /\ booking_results = << >>
    /\ exceptions = << >>
    /\ listing = NoListing
    /\ success = NoCancel
    /\ hotel_db = [hotels |-> HotelServiceHotels, rooms |-> HotelServiceRooms]
    /\ search_db = SearchServiceHotels
    /\ city_index = build_indexes(<< >>, << >>, SearchServiceHotels).city
    /\ name_index = build_indexes(<< >>, << >>, SearchServiceHotels).name
    /\ cache = << >>
    /\ hash_order = order
    /\ found = NoSearch
    /\ answered = << >>
    /\ rebuilt = TRUE
    /\ indexed = SearchServiceHotels
    /\ searching = NotSearching
    /\ rebuilding = NotRebuilding

Init == InitOrdered(<<"s1", "s2", "s3">>)

\* orders in which a set of ids can be iterated (the hash seed of the process
\* decides): every id comes first in one of them, every pair in front in one
Orders == {<<"s1", "s2", "s3">>, <<"s2", "s3", "s1">>, <<"s3", "s1", "s2">>}

InitSearch == \E order \in Orders : InitOrdered(order)

(* ---------------- create_booking, run without interruption ---------------- *)
\* services.py:167-214 as one sequential call: the store, the rate-limit
\* state and the outcome it leaves
create_booking_seq(bks, rl, rms, q, tnow, tday, tcreated) ==
    LET r == is_rate_limited(rl[q.guest_email], tnow)
        rl2 == [rl EXCEPT ![q.guest_email] = r.timestamps]
    IN  IF r.limited
        THEN [bookings |-> bks, rl |-> rl2, result |-> "rate"]
        ELSE IF validate(rms, q, tday) # "ok"
        THEN [bookings |-> bks, rl |-> rl2, result |-> validate(rms, q, tday)]
        ELSE IF has_overlapping_booking(bks, q.room_id, q.check_in_date, q.check_out_date)
        THEN [bookings |-> bks, rl |-> rl2, result |-> "conflict"]
        ELSE [bookings |-> Append(bks, Booking(q, rms[q.room_id], tcreated)),
              rl |-> rl2, result |-> "ok"]

(* ---------------- create_booking, step by step ---------------- *)

\* a thread enters create_booking(q)
Call(t, q, maxcalls) ==
    /\ pc[t] = "idle"
    /\ ncalls < maxcalls
    /\ ncalls' = ncalls + 1
    /\ req' = [req EXCEPT ![t] = q]
    /\ pc' = [pc EXCEPT ![t] = "lock"]
    /\ UNCHANGED <<clock, store, site, success, bookings, requests_by_email, booking_lock,
                   result, ret, loc, attempts, snap, test>>

\* a lock that never blocks
can_acquire_always(locked) == TRUE

\* services.py:173 threading.Lock: acquire succeeds only while nobody holds it
can_acquire(locked) == ~locked

\* services.py:173 `with self._booking_lock:` entered
Acquire(t) ==
    /\ pc[t] = "lock"
    /\ can_acquire(booking_lock)
    /\ booking_lock' = TRUE
    /\ pc' = [pc EXCEPT ![t] = "rate"]
    /\ snap' = [snap EXCEPT ![t] = [bookings |-> bookings, rl |-> requests_by_email]]
    /\ UNCHANGED <<clock, store, site, success, bookings, requests_by_email, call, ncalls,
                   attempts, test>>

\* history: the attempts of one email that lie in the trailing window, with
\* the attempt made now; its outcome is pending until the call is over
attempts_logged(log, tnow, outcome) ==
    Append(SelectSeq(log, LAMBDA x : x.at >= tnow - RateLimitWindow),
           [at |-> tnow, outcome |-> outcome])

\* history: the pending attempt is over
attempts_closed(log, outcome) ==
    [i \in DOMAIN log |->
        IF log[i].outcome = "pending" THEN [log[i] EXCEPT !.outcome = outcome]
        ELSE log[i]]

\* services.py:175-176 the rate-limit check
RateLimit(t) ==
    /\ pc[t] = "rate"
    /\ LET e == req[t].guest_email
           r == is_rate_limited(requests_by_email[e], now)
       IN  /\ requests_by_email' = [requests_by_email EXCEPT ![e] = r.timestamps]
           /\ loc' = [loc EXCEPT ![t].now = now]
           /\ attempts' = [attempts EXCEPT ![e] =
                   attempts_logged(attempts[e], now,
                                   IF r.limited THEN "rate" ELSE "pending")]
           /\ IF r.limited
              THEN /\ result' = [result EXCEPT ![t] = "rate"]
                   /\ pc' = [pc EXCEPT ![t] = "release"]
              ELSE /\ result' = result
                   /\ pc' = [pc EXCEPT ![t] = "validate"]
    /\ UNCHANGED <<clock, store, site, success, bookings, booking_lock, req, ret, ncalls, snap, test>>

\* services.py:178-188 room lookup and date checks
Validate(t) ==
    /\ pc[t] = "validate"
    /\ loc' = [loc EXCEPT ![t].today = today]
    /\ LET outcome == validate(rooms, req[t], today)
       IN  IF outcome = "ok"
           THEN /\ result' = result
                /\ pc' = [pc EXCEPT ![t] = "overlap"]
           ELSE /\ result' = [result EXCEPT ![t] = outcome]
                /\ pc' = [pc EXCEPT ![t] = "release"]
    /\ UNCHANGED <<clock, store, site, success, bookings, requests_by_email, booking_lock, req, ret,
                   ncalls, attempts, snap, test>>

\* an overlap check that stores the booking before it looks for a conflict
CheckOverlap_store_first(t) ==
    /\ pc[t] = "overlap"
    /\ LET q == req[t]
       IN  /\ bookings' = Append(bookings, Booking(q, rooms[q.room_id], now))
           /\ IF has_overlapping_booking(bookings, q.room_id,
                                         q.check_in_date, q.check_out_date)
              THEN /\ result' = [result EXCEPT ![t] = "conflict"]
                   /\ ret' = ret
              ELSE /\ result' = [result EXCEPT ![t] = "ok"]
                   /\ ret' = [ret EXCEPT ![t] = Len(bookings) + 1]
    /\ pc' = [pc EXCEPT ![t] = "release"]
    /\ UNCHANGED <<clock, store, site, success, requests_by_email, booking_lock, req,
                   loc, ncalls, attempts, snap, test>>

\* services.py:190-194 the overlap check
CheckOverlap(t) ==
    /\ pc[t] = "overlap"
    /\ LET q == req[t]
       IN  IF has_overlapping_booking(bookings, q.room_id,
                                      q.check_in_date, q.check_out_date)
           THEN /\ result' = [result EXCEPT ![t] = "conflict"]
                /\ pc' = [pc EXCEPT ![t] = "release"]
           ELSE /\ result' = result
                /\ pc' = [pc EXCEPT ![t] = "insert"]
    /\ UNCHANGED <<clock, store, site, success, bookings, requests_by_email, booking_lock, req, ret,
                   loc, ncalls, attempts, snap, test>>

\* services.py:196-214 price, Booking(...), db.bookings[booking.id] = booking
Insert(t) ==
    /\ pc[t] = "insert"
    /\ bookings' = Append(bookings, Booking(req[t], rooms[req[t].room_id], now))
    /\ loc' = [loc EXCEPT ![t].created = now]
    /\ result' = [result EXCEPT ![t] = "ok"]
    /\ ret' = [ret EXCEPT ![t] = Len(bookings) + 1]
    /\ pc' = [pc EXCEPT ![t] = "release"]
    /\ UNCHANGED <<clock, store, site, success, requests_by_email, booking_lock, req, ncalls,
                   attempts, snap, test>>

\* an exit that gives the lock back on return only, not on raise
Leave_lock_kept_on_raise(t) ==
    /\ pc[t] = "release"
    /\ booking_lock' = (result[t] # "ok")
    /\ pc' = [pc EXCEPT ![t] = "idle"]
    /\ req' = [req EXCEPT ![t] = NoRequest]
    /\ result' = [result EXCEPT ![t] = "none"]
    /\ ret' = [ret EXCEPT ![t] = 0]
    /\ loc' = [loc EXCEPT ![t] = NoLocals]
    /\ snap' = [snap EXCEPT ![t] = NoSnap]
    /\ attempts' = [attempts EXCEPT ![req[t].guest_email] =
            attempts_closed(@, IF result[t] = "ok" THEN "ok" ELSE "rejected")]
    /\ UNCHANGED <<clock, store, site, success, bookings, requests_by_email, ncalls>>

\* services.py:173 the `with` block is left, by return or by raise, and the
\* call is over
Leave(t) ==
    /\ pc[t] = "release"
    /\ booking_lock' = FALSE
    /\ pc' = [pc EXCEPT ![t] = "idle"]
    /\ req' = [req EXCEPT ![t] = NoRequest]
    /\ result' = [result EXCEPT ![t] = "none"]
    /\ ret' = [ret EXCEPT ![t] = 0]
    /\ loc' = [loc EXCEPT ![t] = NoLocals]
    /\ snap' = [snap EXCEPT ![t] = NoSnap]
    /\ attempts' = [attempts EXCEPT ![req[t].guest_email] =
            attempts_closed(@, IF result[t] = "ok" THEN "ok" ELSE "rejected")]
    /\ UNCHANGED <<clock, store, site, success, bookings, requests_by_email, ncalls>>

\* the call ends in the API handler (main.py:101-110), which keeps nothing
Release(t) ==
    /\ Leave(t)
    /\ UNCHANGED test

\* test_booking_logic.py:283-288 the call ends in the test's make_booking,
\* which appends the booking to booking_results or the error to exceptions
Collect(t) ==
    /\ Leave(t)
    /\ IF result[t] = "ok"
       THEN /\ booking_results' = Append(booking_results, ret[t])
            /\ exceptions' = exceptions
       ELSE /\ exceptions' = Append(exceptions, [guest |-> req[t].guest_email,
                                                 error |-> result[t]])
            /\ booking_results' = booking_results
    /\ UNCHANGED listing

\* a cancellation that takes the record out of the store
set_cancelled_deletes(bks, b) ==
    IF b \in DOMAIN bks
    THEN [i \in 1 .. Len(bks) - 1 |-> IF i < b THEN bks[i] ELSE bks[i + 1]]
    ELSE bks

\* a cancellation that flips the status of a cancelled booking back
set_cancelled_toggles(bks, b) ==
    IF b \in DOMAIN bks
    THEN [bks EXCEPT ![b].status = IF @ = CANCELLED THEN CONFIRMED ELSE CANCELLED]
    ELSE bks

\* booking.status = CANCELLED on the stored booking b
set_cancelled(bks, b) ==
    IF b \in DOMAIN bks THEN [bks EXCEPT ![b].status = CANCELLED] ELSE bks

\* a cancel_booking that answers True for every id
cancel_booking_returns_true(bks, b) == TRUE

\* services.py:238-242 what cancel_booking returns
cancel_booking_returns(bks, b) == b \in DOMAIN bks

\* services.py:236-242 cancel_booking(booking_id); 0 is an id nobody has
cancel_booking(b) ==
    /\ b \in DOMAIN bookings \cup {0}
    /\ bookings' = set_cancelled(bookings, b)
    /\ UNCHANGED <<clock, store, site, requests_by_email, booking_lock, pc, call,
                   ncalls, attempts, snap, test>>

\* main.py:125-131 the API handler answers 404 or a message and keeps nothing
Cancel(b) ==
    /\ cancel_booking(b)
    /\ UNCHANGED success

\* test_booking_logic.py:325-326 success = cancel_booking(booking.id)
CancelKept(b) ==
    /\ cancel_booking(b)
    /\ success' = [id |-> b,
                   was |-> IF b \in DOMAIN bookings THEN bookings[b].status ELSE "absent",
                   returned |-> cancel_booking_returns(bookings, b)]

\* time passes
Tick ==
    /\ now < MaxClock
    /\ now' = now + ClockStep
    /\ UNCHANGED <<today, store, site, success, bookings, requests_by_email, booking_lock, pc, call,
                   ncalls, attempts, snap, test>>

\* midnight passes
NextDay ==
    /\ today < MaxDay
    /\ today' = today + 1
    /\ UNCHANGED <<now, store, site, success, bookings, requests_by_email, booking_lock, pc, call,
                   ncalls, attempts, snap, test>>

\* the steps of create_booking between the call and the end of the call
Step(t) ==
    \/ Acquire(t)
    \/ RateLimit(t)
    \/ Validate(t)
    \/ CheckOverlap(t)
    \/ Insert(t)

\* create_booking and cancel_booking called from concurrent request threads
Next ==
    \/ \E t \in Workers, q \in Requests :
          q.guest_email = GuestOf(t) /\ Call(t, q, MaxCalls)
    \/ \E t \in Threads : Step(t) \/ Release(t)
    \/ \E b \in 0 .. MaxCalls : Cancel(b)

Spec == Init /\ [][Next]_vars

\* create_booking alone, called from concurrent threads while days pass
NextCreate ==
    \/ \E t \in Workers, q \in Requests :
          q.guest_email = GuestOf(t) /\ Call(t, q, MaxCalls)
    \/ \E t \in Threads : Step(t) \/ Release(t)
    \/ NextDay

SpecCreate == Init /\ [][NextCreate]_vars

\* the requests of SpecCancel: stays of room r1 that overlap and touch
CancelRequests ==
    { BookingRequest("r1", GuestName(e), e, d[1], d[2]) :
        e \in Emails, d \in {<<1, 2>>, <<1, 3>>, <<2, 3>>} }

\* create_booking and cancel_booking, called by clients that keep the answer
\* of cancel_booking
NextCancel ==
    \/ \E t \in Workers, q \in CancelRequests :
          q.guest_email = GuestOf(t) /\ Call(t, q, MaxCalls)
    \/ \E t \in Threads : Step(t) \/ Release(t)
    \/ \E b \in 0 .. MaxCalls : CancelKept(b)

SpecCancel == Init /\ [][NextCancel]_vars

\* many attempts of few kinds by two guests, to exercise the rate limiter
NextRate ==
    \/ \E t \in Workers, q \in RateRequests :
          q.guest_email = GuestOf(t) /\ Call(t, q, MaxRateCalls)
    \/ \E t \in Threads : Step(t) \/ Release(t)
    \/ Tick

SpecRate == Init /\ [][NextRate]_vars

\* test_booking_logic.py:269-309 the concurrency test: every thread calls
\* create_booking once, for the same room and range, with its own email
Started(t) ==
    \/ pc[t] # "idle"
    \/ \E i \in DOMAIN exceptions : exceptions[i].guest = GuestOf(t)
    \/ \E i \in DOMAIN booking_results :
          bookings[booking_results[i]].guest_email = GuestOf(t)

NextRace ==
    \/ \E t \in Threads :
          ~Started(t) /\ Call(t, RaceRequest(GuestOf(t)), Cardinality(Threads))
    \/ \E t \in Threads : Step(t) \/ Collect(t)
    \/ Tick

SpecRace == Init /\ [][NextRace]_vars

\* the requests of SpecOrder, all of one guest: a valid stay in room r1, and
\* requests that fail more than one check: an unknown room with an inverted
\* range, an unknown room with a stay in the past, an inverted range that
\* starts in the past, a stay in the past that overlaps the valid one
OrderRequests ==
    { BookingRequest("r1", GuestName("a@x.in"), "a@x.in", 1, 3),
      BookingRequest(UnknownRoom, GuestName("a@x.in"), "a@x.in", 2, 1),
      BookingRequest(UnknownRoom, GuestName("a@x.in"), "a@x.in", 0, 1),
      BookingRequest("r1", GuestName("a@x.in"), "a@x.in", 0, -1),
      BookingRequest("r1", GuestName("a@x.in"), "a@x.in", 0, 2) }

\* one client calls create_booking again and again, past the rate limit, while
\* days pass
NextOrder ==
    \/ \E q \in OrderRequests : Call("t1", q, MaxRateCalls)
    \/ Step("t1") \/ Release("t1")
    \/ NextDay

SpecOrder == Init /\ [][NextOrder]_vars

\* the requests of SpecLive: a valid stay, and requests that are rejected for
\* the room, the range and the date
LiveRequests ==
    { BookingRequest("r1", GuestName(e), e, d[1], d[2]) :
        e \in Emails, d \in {<<1, 3>>, <<2, 1>>, <<0, 1>>} }
    \cup { BookingRequest(UnknownRoom, GuestName(e), e, 1, 3) : e \in Emails }

NextLive ==
    \/ \E t \in Workers, q \in LiveRequests :
          q.guest_email = GuestOf(t) /\ Call(t, q, MaxCalls)
    \/ \E t \in Threads : Step(t) \/ Release(t)

\* concurrent create_booking calls under a fair scheduler: a thread that can
\* go on inside the critical section does, and a thread that waits for the
\* lock gets it if the lock is free again and again
SpecLive ==
    /\ Init /\ [][NextLive]_vars
    /\ \A t \in Threads :
          /\ SF_vars(Acquire(t))
          /\ WF_vars(RateLimit(t) \/ Validate(t) \/ CheckOverlap(t) \/ Insert(t))
          /\ WF_vars(Release(t))

\* main.py:112-115 GET /api/bookings: get_bookings(guest_name)
GetBookings(guest_name) ==
    /\ listing' = [guest_name |-> guest_name, results |-> get_bookings(bookings, guest_name)]
    /\ UNCHANGED <<clock, store, site, success, bookings, requests_by_email, booking_lock,
                   pc, call, ncalls, attempts, snap, booking_results, exceptions>>

\* the requests of SpecList: one guest asks for a stay in room r1, another
\* for a stay in room r2
ListRequests ==
    { BookingRequest("r1", GuestName("a@x.in"), "a@x.in", 1, 3),
      BookingRequest("r2", GuestName("b@x.in"), "b@x.in", 1, 3) }

\* the filters of SpecList: none, the empty one, part of one guest's name in
\* another case
Filters == {None, << >>, <<"A", "S">>}

\* bookings are created and cancelled by one client after the other while
\* time passes, and listed
NextList ==
    \/ \E q \in ListRequests : Call("t1", q, MaxCalls)
    \/ Step("t1") \/ Release("t1")
    \/ \E b \in 1 .. MaxCalls : Cancel(b)
    \/ \E f \in Filters : GetBookings(f)
    \/ Tick

SpecList == Init /\ [][NextList]_vars

(* ---------------- the other services, step by step ---------------- *)

\* services.py:29-32 HotelService.create_hotel: self.db.hotels[hotel.id] = hotel
create_hotel(h) ==
    /\ hotel_db' = [hotel_db EXCEPT !.hotels = dict_set(@, h)]
    /\ UNCHANGED <<clock, store, search, success, bookings, requests_by_email,
                   booking_lock, pc, call, ncalls, attempts, snap, test>>

\* history: a query as the caller wrote it, and the answer noted for it
Query(city, hotel_name, limit) == [city |-> city, name |-> hotel_name, limit |-> limit]

noted(log, q, answer) == [k \in DOMAIN log \cup {q} |-> IF k = q THEN answer ELSE log[k]]

\* services.py:85-134 SearchService.search_hotels(city, hotel_name, limit)
SearchHotels(city, hotel_name, limit) ==
    /\ LET r == search_hotels(search_db, city_index, name_index, cache, hash_order,
                              now, city, hotel_name, limit)
       IN  /\ cache' = r.cache
           /\ found' = [city |-> city, name |-> hotel_name, limit |-> limit,
                        results |-> r.results, error |-> r.error, cached |-> r.cached,
                        expired |-> cache_key(city, hotel_name, limit) \in DOMAIN cache
                                    /\ ~r.cached]
           /\ answered' = IF r.cached \/ r.error THEN answered
                          ELSE noted(answered, Query(city, hotel_name, limit),
                                     [results |-> r.results, at |-> now])
    /\ UNCHANGED <<clock, store, hotel_db, threads, search_db, city_index, name_index, hash_order,
                   rebuilt, indexed, success, bookings, requests_by_email, booking_lock, pc, call,
                   ncalls, attempts, snap, test>>

\* a rebuild that leaves the result cache alone
rebuild_indexes_cache_kept ==
    /\ city_index' = build_indexes(<< >>, << >>, search_db).city
    /\ name_index' = build_indexes(<< >>, << >>, search_db).name
    /\ answered' = << >>
    /\ rebuilt' = TRUE
    /\ indexed' = search_db
    /\ UNCHANGED <<clock, store, hotel_db, threads, search_db, cache, hash_order, found, success,
                   bookings, requests_by_email, booking_lock, pc, call, ncalls,
                   attempts, snap, test>>

\* a rebuild that adds the store to the indexes it finds
rebuild_indexes_not_cleared ==
    /\ city_index' = build_indexes(city_index, name_index, search_db).city
    /\ name_index' = build_indexes(city_index, name_index, search_db).name
    /\ cache' = << >>
    /\ answered' = << >>
    /\ rebuilt' = TRUE
    /\ indexed' = search_db
    /\ UNCHANGED <<clock, store, hotel_db, threads, search_db, hash_order, found, success,
                   bookings, requests_by_email, booking_lock, pc, call, ncalls,
                   attempts, snap, test>>

\* services.py:136-142 rebuild_indexes: both indexes are cleared and built from
\* the store, then the cache is cleared
rebuild_indexes ==
    /\ city_index' = build_indexes(<< >>, << >>, search_db).city
    /\ name_index' = build_indexes(<< >>, << >>, search_db).name
    /\ cache' = << >>
    /\ answered' = << >>
    /\ rebuilt' = TRUE
    /\ indexed' = search_db
    /\ UNCHANGED <<clock, store, hotel_db, threads, search_db, hash_order, found, success,
                   bookings, requests_by_email, booking_lock, pc, call, ncalls,
                   attempts, snap, test>>

\* test_booking_logic.py:397-398 db.hotels[hotel.id] = hotel on the search
\* service's store
StoreWrite(h) ==
    /\ search_db' = dict_set(search_db, h)
    /\ rebuilt' = FALSE
    /\ UNCHANGED <<clock, store, hotel_db, threads, city_index, name_index, cache, hash_order,
                   found, answered, indexed, success, bookings, requests_by_email, booking_lock,
                   pc, call, ncalls, attempts, snap, test>>

\* the hotels a test writes: a new one, and another hotel under the id s1
WrittenHotels == {Hotel("s3", InnInn, Go, {}), Hotel("s1", Inn, Go, {"x1"})}

\* the queries of SpecSearch: a city in another case than the store's, a word
\* that is part of an indexed word with a limit that truncates, no filter
Queries == {Query(lower(GOA), None, Cardinality(HotelIds) + 1),
            Query(None, <<"i", "n">>, 1),
            Query(None, None, Cardinality(HotelIds))}

\* the search service on its own: searches, writes to its store, rebuilds,
\* while time passes
NextSearch ==
    \/ \E q \in Queries : SearchHotels(q.city, q.name, q.limit)
    \/ \E h \in WrittenHotels : StoreWrite(h)
    \/ rebuild_indexes
    \/ Tick

SpecSearch == InitSearch /\ [][NextSearch]_vars

\* test_booking_logic.py:95-115 the hotels a test adds before it rebuilds: a new
\* one, and another hotel under the id s1
AddedHotels == {Hotel("s3", Sun, Go, {}), Hotel("s1", Inn, Go, {"x1"})}

\* test_booking_logic.py:120-154 the searches of the tests and the limits the
\* request model lets through: a city in another case than the store's, a
\* city that is the start of another with a limit that truncates, two words
\* that are parts of indexed words, both filters, no filter, no filter with a
\* negative limit
Searches == {Query(lower(GOA), None, Cardinality(HotelIds) + 1),
             Query(Go, None, 1),
             Query(None, SeUn, Cardinality(HotelIds) + 1),
             Query(GOA, SeUn, Cardinality(HotelIds) + 1),
             Query(None, None, Cardinality(HotelIds)),
             Query(None, None, -1)}

\* test_booking_logic.py:86-154 the search service under the queries of its
\* tests: hotels are added to its store or replaced there, the indexes are
\* rebuilt at some point after, and searches run at any time
NextQuery ==
    \/ \E q \in Searches : SearchHotels(q.city, q.name, q.limit)
    \/ \E h \in AddedHotels : StoreWrite(h)
    \/ rebuild_indexes

SpecQuery == InitSearch /\ [][NextQuery]_vars

(* ---------------- search_hotels beside rebuild_indexes ---------------- *)
\* SearchService takes no lock: a search_hotels call and a rebuild_indexes
\* call on two threads interleave between their statements

\* services.py:93-96 the cache lookup: a hit returns, a miss goes on
SearchLookup(city, hotel_name, limit) ==
    /\ searching.pc = "idle"
    /\ LET key == cache_key(city, hotel_name, limit)
           g == get_cached(cache, key, now)
       IN  /\ cache' = g.cache
           /\ IF g.hit
              THEN /\ found' = [city |-> city, name |-> hotel_name, limit |-> limit,
                                results |-> cache[key].results, error |-> FALSE,
                                cached |-> TRUE, expired |-> FALSE]
                   /\ searching' = searching
              ELSE /\ found' = found
                   /\ searching' = [pc |-> "compute", city |-> city, name |-> hotel_name,
                                    limit |-> limit, results |-> << >>,
                                    expired |-> key \in DOMAIN cache]
    /\ UNCHANGED <<clock, store, hotel_db, search_db, city_index, name_index, hash_order,
                   answered, rebuilt, indexed, rebuilding, success, bookings,
                   requests_by_email, booking_lock, pc, call, ncalls, attempts, snap, test>>

\* services.py:98-132 the result is computed from the indexes and the store as
\* they are at this moment; an indexed id that the store lacks raises
SearchCompute ==
    /\ searching.pc = "compute"
    /\ LET r == search_hotels(search_db, city_index, name_index, << >>, hash_order, now,
                              searching.city, searching.name, searching.limit)
       IN  IF r.error
           THEN /\ searching' = NotSearching
                /\ found' = [city |-> searching.city, name |-> searching.name,
                             limit |-> searching.limit, results |-> << >>, error |-> TRUE,
                             cached |-> FALSE, expired |-> searching.expired]
           ELSE /\ searching' = [searching EXCEPT !.pc = "store", !.results = r.results]
                /\ found' = found
    /\ UNCHANGED <<clock, store, hotel_db, search_db, city_index, name_index, cache,
                   hash_order, answered, rebuilt, indexed, rebuilding, success, bookings,
                   requests_by_email, booking_lock, pc, call, ncalls, attempts, snap, test>>

\* services.py:100-101, 133-134 _set_cache and return
SearchStore ==
    /\ searching.pc = "store"
    /\ cache' = set_cache(cache, cache_key(searching.city, searching.name, searching.limit),
                          searching.results, now)
    /\ found' = [city |-> searching.city, name |-> searching.name,
                 limit |-> searching.limit, results |-> searching.results,
                 error |-> FALSE, cached |-> FALSE, expired |-> searching.expired]
    /\ searching' = NotSearching
    /\ UNCHANGED <<clock, store, hotel_db, search_db, city_index, name_index, hash_order,
                   answered, rebuilt, indexed, rebuilding, success, bookings,
                   requests_by_email, booking_lock, pc, call, ncalls, attempts, snap, test>>

\* services.py:138-139 both indexes are cleared
RebuildClear ==
    /\ rebuilding.pc = "idle"
    /\ city_index' = << >>
    /\ name_index' = << >>
    /\ rebuilding' = [pc |-> "build", n |-> 0]
    /\ UNCHANGED <<clock, store, hotel_db, search_db, cache, hash_order, found, answered,
                   rebuilt, indexed, searching, success, bookings, requests_by_email,
                   booking_lock, pc, call, ncalls, attempts, snap, test>>

\* services.py:140, 58-66 _build_indexes adds the next hotel of the store to
\* both indexes; after the last one the indexes are those of the store
RebuildAdd ==
    /\ rebuilding.pc = "build"
    /\ IF rebuilding.n < Len(search_db)
       THEN LET h == search_db[rebuilding.n + 1]
            IN  /\ city_index' = index_add(city_index, lower(h.city), h)
                /\ name_index' = add_words(name_index, split(lower(h.name)), h)
                /\ rebuilding' = [rebuilding EXCEPT !.n = @ + 1]
                /\ UNCHANGED <<rebuilt, indexed>>
       ELSE /\ rebuilding' = [rebuilding EXCEPT !.pc = "invalidate"]
            /\ rebuilt' = TRUE
            /\ indexed' = search_db
            /\ UNCHANGED <<city_index, name_index>>
    /\ UNCHANGED <<clock, store, hotel_db, search_db, cache, hash_order, found, answered,
                   searching, success, bookings, requests_by_email, booking_lock, pc, call,
                   ncalls, attempts, snap, test>>

\* services.py:141-142 the cache is cleared and rebuild_indexes returns
RebuildInvalidate ==
    /\ rebuilding.pc = "invalidate"
    /\ cache' = << >>
    /\ answered' = << >>
    /\ rebuilding' = NotRebuilding
    /\ UNCHANGED <<clock, store, hotel_db, search_db, city_index, name_index, hash_order,
                   found, rebuilt, indexed, searching, success, bookings, requests_by_email,
                   booking_lock, pc, call, ncalls, attempts, snap, test>>

\* the queries of SpecThreads: two cities, one limit that truncates
ThreadQueries == {Query(lower(GOA), None, Cardinality(HotelIds) + 1), Query(Go, None, 1)}

\* a thread that searches and a thread that rebuilds the indexes after hotels
\* were added to the store, which is not written while _build_indexes
\* iterates over it
NextThreads ==
    \/ \E q \in ThreadQueries : SearchLookup(q.city, q.name, q.limit)
    \/ SearchCompute
    \/ SearchStore
    \/ \E h \in AddedHotels : rebuilding.pc # "build" /\ StoreWrite(h)
    \/ RebuildClear
    \/ RebuildAdd
    \/ RebuildInvalidate

SpecThreads == InitSearch /\ [][NextThreads]_vars

\* the hotels a client posts to /api/hotels: a new one, and one with the id of
\* a hotel the service has
PostedHotels == {Hotel("n1", Inn, Goa, {"z1"}), Hotel("g1", Inn, GOA, {"z2"})}

\* the rooms a client has seen in the answers of the hotel service and of the
\* search service
SeenRooms == exposed_rooms(hotel_db.hotels) \cup exposed_rooms(found.results)

\* main.py:19-110 the application: the three services, each on the
\* DatabaseManager it constructed, behind the API
NextApp ==
    \/ \E t \in Workers, r \in SeenRooms \cup {"r1"} :
          Call(t, BookingRequest(r, GuestName(GuestOf(t)), GuestOf(t), 1, 3), MaxCalls)
    \/ \E t \in Threads : Step(t) \/ Release(t)
    \/ \E h \in PostedHotels : create_hotel(h)
    \/ \E l \in {1, Cardinality(HotelIds) + 1} : SearchHotels(Goa, None, l)

SpecApp == Init /\ [][NextApp]_vars

(* ======================= properties ======================= *)

InCriticalSection(t) == pc[t] \in {"rate", "validate", "overlap", "insert", "release"}

\* the rate check admitted the call of thread t
Admitted(t) ==
    \/ pc[t] \in {"validate", "overlap", "insert"}
    \/ pc[t] = "release" /\ result[t] # "rate"

\* the half-open ranges [a,b) and [c,d) conflict
Conflict(a, b, c, d) == c < b /\ a < d

SameRoomConfirmed(i, j) ==
    /\ i # j
    /\ bookings[i].room_id = bookings[j].room_id
    /\ bookings[i].status = CONFIRMED
    /\ bookings[j].status = CONFIRMED

\* C1: any two distinct Confirmed bookings of one room [a,b) and [c,d)
\* satisfy NOT (c < b AND a < d), in every reachable state
C1_NoOverlap ==
    \A i \in DOMAIN bookings, j \in DOMAIN bookings :
        SameRoomConfirmed(i, j) =>
            ~Conflict(bookings[i].check_in_date, bookings[i].check_out_date,
                      bookings[j].check_in_date, bookings[j].check_out_date)

\* two confirmed stays of one room touch, next to a cancelled one
C1_Witness ==
    /\ \E i \in DOMAIN bookings, j \in DOMAIN bookings :
          /\ SameRoomConfirmed(i, j)
          /\ bookings[i].check_out_date = bookings[j].check_in_date
          /\ bookings[i].check_in_date < bookings[i].check_out_date
          /\ bookings[j].check_in_date < bookings[j].check_out_date
    /\ \E k \in DOMAIN bookings : bookings[k].status = CANCELLED

\* every thread of the concurrency test has called and its call is over
AllDone == \A t \in Threads : Started(t) /\ pc[t] = "idle"

\* C2: of k concurrent calls for the same room and the same future range,
\* each with its own email, exactly one returns a booking and the other k-1
\* fail with the conflict error, in every interleaving
C2_ExactlyOneWins ==
    /\ Len(booking_results) <= 1
    /\ \A i \in DOMAIN exceptions : exceptions[i].error = "conflict"
    /\ AllDone => /\ Len(booking_results) = 1
                  /\ Len(exceptions) = Cardinality(Threads) - 1

C2_Witness ==
    /\ AllDone
    /\ Len(booking_results) = 1
    /\ Len(exceptions) = 2
    /\ Cardinality({exceptions[i].guest : i \in DOMAIN exceptions}) = 2

\* the nights a booking covers: check_in .. check_out-1, and the night of
\* check_in for a same-day booking
Covers(b, n) ==
    IF b.check_in_date < b.check_out_date
    THEN b.check_in_date <= n /\ n < b.check_out_date
    ELSE n = b.check_in_date

\* C3: for every room and every night at most one Confirmed booking covers
\* the night
C3_OneBookingPerNight ==
    \A i \in DOMAIN bookings, j \in DOMAIN bookings :
        SameRoomConfirmed(i, j) =>
            ~ \E n \in 0 .. 3 : Covers(bookings[i], n) /\ Covers(bookings[j], n)

\* C4: at most one call is in the critical section, the lock is held from the
\* rate check to the end of the call, and while a call is between its overlap
\* check and its insertion no booking is inserted
C4_CriticalSection ==
    /\ [](\A t1 \in Threads, t2 \in Threads :
            InCriticalSection(t1) /\ InCriticalSection(t2) => t1 = t2)
    /\ [](\A t \in Threads : InCriticalSection(t) => booking_lock)
    /\ [][\A t \in Threads :
            pc[t] = "insert" /\ pc'[t] = "insert" => Len(bookings') = Len(bookings)]_vars

\* one call is between check and insertion while another waits for the lock
C4_Witness ==
    \E t1 \in Threads, t2 \in Threads :
        /\ pc[t1] = "insert"
        /\ pc[t2] = "lock"
        /\ req[t1].room_id = req[t2].room_id
        /\ Len(bookings) > 0

\* C5: a call decides against the state left by all calls that held the lock
\* before it, and leaves what the sequential run of the same call leaves:
\* the same outcome, bookings and rate-limit timestamps
C5_Sequential ==
    /\ [](\A t \in Threads :
            pc[t] = "release" =>
                LET s == create_booking_seq(snap[t].bookings, snap[t].rl, rooms, req[t],
                                            loc[t].now, loc[t].today, loc[t].created)
                IN  /\ s.result = result[t]
                    /\ s.bookings = bookings
                    /\ s.rl = requests_by_email)
    /\ [][~booking_lock =>
            bookings' = bookings /\ requests_by_email' = requests_by_email]_vars

\* the second call to get the lock is refused because of the booking the
\* first one inserted, while the first caller already calls again
C5_Witness ==
    \E t1 \in Threads, t2 \in Threads :
        /\ pc[t1] = "release" /\ result[t1] = "conflict"
        /\ pc[t2] = "lock"
        /\ Len(snap[t1].bookings) = 1
        /\ snap[t1].bookings[1].guest_email = GuestOf(t2)
        /\ ncalls = 3

\* the conflict rule of the claim: some Confirmed booking [a,b) of the room
\* has a < check_out and check_in < b
ClaimConflict(bks, q) ==
    \E i \in DOMAIN bks :
        /\ bks[i].room_id = q.room_id
        /\ bks[i].status = CONFIRMED
        /\ bks[i].check_in_date < q.check_out_date
        /\ q.check_in_date < bks[i].check_out_date

\* C6: a request that passed the rate, room and date checks fails with the
\* conflict error iff a Confirmed booking [a,b) of the room has
\* a < check_out and check_in < b; touching ranges are not rejected
C6_ConflictIff ==
    [][\A t \in Threads :
         pc[t] = "overlap" /\ pc'[t] # "overlap" =>
            /\ result'[t] = "conflict" <=> ClaimConflict(bookings, req[t])
            /\ result'[t] # "conflict" => pc'[t] = "insert"]_vars

\* a request that starts on the check-out day of a confirmed stay and ends on
\* the check-in day of another one is let through
C6_Witness ==
    \E t \in Threads :
        /\ pc[t] = "insert"
        /\ \E i \in DOMAIN bookings :
              /\ bookings[i].room_id = req[t].room_id
              /\ bookings[i].status = CONFIRMED
              /\ bookings[i].check_out_date = req[t].check_in_date
              /\ bookings[i].check_in_date < bookings[i].check_out_date
        /\ req[t].check_in_date < req[t].check_out_date

C8_RejectedLeavesStore ==
    /\ [][\A t \in Threads :
            pc'[t] # pc[t] =>
                /\ rooms' = rooms /\ hotels' = hotels
                /\ IF pc[t] = "insert"
                   THEN result'[t] = "ok"
                   ELSE bookings' = bookings]_vars
    /\ [](\A t \in Threads :
            pc[t] = "release" /\ result[t] # "ok" =>
                Len(bookings) = Len(snap[t].bookings))

\* a call is refused for a conflict after the rate limiter recorded it
C8_Witness ==
    \E t \in Threads :
        /\ pc[t] = "release" /\ result[t] = "conflict"
        /\ Len(requests_by_email[req[t].guest_email])
             > Len(snap[t].rl[req[t].guest_email])
        /\ bookings # << >>

\* the attempts of a log, the pending one left out, with an outcome in kinds
Earlier(log, kinds) ==
    Len(SelectSeq(log, LAMBDA x : x.outcome \in kinds))

\* C9 as stated: after 5 attempts of an email within the trailing 60 seconds,
\* whatever their outcome, the next attempt fails with the rate-limit error
C9_AnyFiveAttempts ==
    \A t \in Threads :
        Admitted(t) =>
            Earlier(attempts[req[t].guest_email], {"rate", "rejected", "ok"}) < RateLimitMax

\* C9 amended: after 5 attempts of an email within the trailing 60 seconds
\* that passed the rate-limit check, the next attempt fails with the
\* rate-limit error and no other validation decides it
C9_FiveAdmittedAttempts ==
    [][\A t \in Threads :
         /\ pc[t] = "rate" /\ pc'[t] # "rate"
         /\ Len(SelectSeq(attempts[req[t].guest_email],
                          LAMBDA x : x.outcome \in {"rejected", "ok"}
                                     /\ x.at >= now - RateLimitWindow)) >= RateLimitMax
         => result'[t] = "rate" /\ pc'[t] = "release"]_vars

\* the limiter refuses a request for a room that does not exist
C9_Witness ==
    \E t \in Threads :
        /\ pc[t] = "release" /\ result[t] = "rate"
        /\ req[t].room_id \notin DOMAIN rooms
        /\ Earlier(attempts[req[t].guest_email], {"rejected", "ok"}) = RateLimitMax

\* C10: attempts that passed the rate check and were then rejected count:
\* after five of them within 60 seconds the next attempt is not admitted
C10_RejectedAttemptsCount ==
    \A t \in Threads :
        Admitted(t) => Earlier(attempts[req[t].guest_email], {"rejected"}) < RateLimitMax

\* five rejected attempts, then the limiter refuses the sixth
C10_Witness ==
    \E t \in Threads :
        /\ pc[t] = "release" /\ result[t] = "rate"
        /\ Earlier(attempts[req[t].guest_email], {"rejected"}) = RateLimitMax
        /\ bookings = << >>

\* the times of the attempts of a log
Times(log) == [i \in DOMAIN log |-> log[i].at]

\* C11 as stated: every attempt of the trailing window, the ones refused with
\* the rate-limit error included, is in the email's rate-limit list
C11_EveryAttemptRecorded ==
    \A e \in Emails : requests_by_email[e] = Times(attempts[e])

\* C11 amended: the email's rate-limit list holds exactly the attempts of the
\* trailing window that passed the rate-limit check; an attempt refused with
\* the rate-limit error is not in it
C11_AdmittedAttemptsRecorded ==
    \A e \in Emails :
        requests_by_email[e] =
            Times(SelectSeq(attempts[e], LAMBDA x : x.outcome # "rate"))

\* an attempt is admitted after a refused one that is still in the window
C11_Witness ==
    \E e \in Emails : \E i \in DOMAIN attempts[e], j \in DOMAIN attempts[e] :
        /\ i < j
        /\ attempts[e][i].outcome = "rate"
        /\ attempts[e][j].outcome # "rate"
        /\ attempts[e][j].at - attempts[e][i].at < RateLimitWindow
        /\ Len(requests_by_email[e]) = RateLimitMax

\* C12: a room that the hotel service or the search service lists in a hotel
\* resolves in the booking service: create_booking for it with valid dates
\* does not end with "Room not found"
C12_ExposedRoomResolves ==
    \A t \in Threads :
        /\ req[t].room_id \in exposed_rooms(hotel_db.hotels) \cup exposed_rooms(search_db)
        /\ validate_dates(req[t], today) = "ok"
        => result[t] # "notfound"

\* the hotels of a result
Listed(results) == {results[k] : k \in DOMAIN results}

\* C13: once create_hotel has stored a hotel, a search by its city alone with
\* a limit that cannot truncate returns the hotel
C13_CreatedHotelFound ==
    [][\A k \in DOMAIN hotel_db.hotels :
         /\ found' # found
         /\ hotel_db.hotels[k] \in PostedHotels
         /\ ~falsy(found'.city) /\ falsy(found'.name)
         /\ lower(found'.city) = lower(hotel_db.hotels[k].city)
         /\ found'.limit > Cardinality(HotelIds)
         => hotel_db.hotels[k] \in Listed(found'.results)]_vars

\* C14: cancel_booking of a stored booking sets its status to Cancelled and
\* returns true; for an id that is not in the store it returns false and
\* changes nothing; in both cases nothing but the one status changes
C14_CancelStoredAndUnknown ==
    /\ [][success' # success =>
            LET b == success'.id
            IN  /\ b \in DOMAIN bookings =>
                      /\ success'.returned
                      /\ bookings'[b].status = CANCELLED
                      /\ \A i \in DOMAIN bookings : i # b => bookings'[i] = bookings[i]
                /\ b \notin DOMAIN bookings =>
                      ~success'.returned /\ bookings' = bookings
                /\ Len(bookings') = Len(bookings)
                /\ UNCHANGED <<store, requests_by_email, booking_lock, pc, call>>]_vars
    /\ [](success.returned =>
            /\ success.id \in DOMAIN bookings
            /\ bookings[success.id].status = CANCELLED)

\* an unknown id is refused after a booking was cancelled
C14_Witness ==
    /\ success.was = "absent" /\ ~success.returned
    /\ \E i \in DOMAIN bookings : bookings[i].status = CANCELLED
    /\ \E i \in DOMAIN bookings : bookings[i].status = CONFIRMED

\* C15 as stated: cancel_booking of a booking that is already Cancelled
\* returns false
C15_SecondCancelReturnsFalse ==
    success.was = CANCELLED => ~success.returned

\* C15 amended: cancel_booking of a booking that is already Cancelled returns
\* true, leaves the status Cancelled and changes nothing else
C15_SecondCancelIsNoOp ==
    /\ [](success.was = CANCELLED =>
            success.returned /\ bookings[success.id].status = CANCELLED)
    /\ [][success'.was = CANCELLED /\ success' # success =>
            /\ bookings' = bookings
            /\ UNCHANGED <<store, requests_by_email, booking_lock, pc, call>>]_vars

\* a cancelled booking is cancelled again while another one is confirmed
C15_Witness ==
    /\ success.was = CANCELLED /\ success.returned
    /\ bookings[success.id].status = CANCELLED
    /\ \E i \in DOMAIN bookings : bookings[i].status = CONFIRMED

\* a Cancelled booking of the requested room whose range overlaps the request
OverlapsCancelled(bks, q) ==
    \E i \in DOMAIN bks :
        /\ bks[i].room_id = q.room_id
        /\ bks[i].status = CANCELLED
        /\ Conflict(bks[i].check_in_date, bks[i].check_out_date,
                    q.check_in_date, q.check_out_date)

\* C16: a request that passed the other validations, overlaps a Cancelled
\* booking of its room and no Confirmed one passes the overlap check, and
\* the insertion that follows stores it as a Confirmed booking
C16_CancelledExcluded ==
    [][\A t \in Threads :
         /\ (/\ pc[t] = "overlap" /\ pc'[t] # "overlap"
              /\ OverlapsCancelled(bookings, req[t])
              /\ ~ClaimConflict(bookings, req[t]))
            => pc'[t] = "insert" /\ result'[t] # "conflict"
         /\ (pc[t] = "insert" /\ pc'[t] # "insert")
            => /\ result'[t] = "ok"
               /\ Len(bookings') = Len(bookings) + 1
               /\ bookings'[ret'[t]].status = CONFIRMED
               /\ bookings'[ret'[t]].room_id = req[t].room_id]_vars

\* a call returns a booking of a range that a cancelled booking of the room holds
C16_Witness ==
    \E t \in Threads :
        /\ pc[t] = "release" /\ result[t] = "ok"
        /\ \E i \in DOMAIN snap[t].bookings :
              /\ bookings[i].status = CANCELLED
              /\ snap[t].bookings[i].status = CANCELLED
              /\ bookings[i].room_id = req[t].room_id
              /\ Conflict(bookings[i].check_in_date, bookings[i].check_out_date,
                          req[t].check_in_date, req[t].check_out_date)

\* C17: a stored booking stays in the store under every step, with its room,
\* guest, dates and total price unchanged; only its status may change
C17_NeverDeleted ==
    [][\A i \in DOMAIN bookings :
         /\ i \in DOMAIN bookings'
         /\ [bookings'[i] EXCEPT !.status = CONFIRMED]
              = [bookings[i] EXCEPT !.status = CONFIRMED]]_vars

\* a cancelled booking is still stored after a later booking took its range
C17_Witness ==
    /\ Len(bookings) >= 2
    /\ bookings[1].status = CANCELLED
    /\ bookings[2].status = CONFIRMED
    /\ bookings[2].room_id = bookings[1].room_id
    /\ bookings[2].guest_email # bookings[1].guest_email
    /\ Conflict(bookings[1].check_in_date, bookings[1].check_out_date,
                bookings[2].check_in_date, bookings[2].check_out_date)

\* the query of the last search_hotels call
Asked(f) == Query(f.city, f.name, f.limit)

\* what search_hotels computes for a query when it finds nothing in the cache
Computed(q) ==
    search_hotels(search_db, city_index, name_index, << >>, hash_order, now,
                  q.city, q.name, q.limit)

\* C18: a search_hotels call whose (city, name, limit) was answered by an
\* earlier computation less than the TTL ago, with no rebuild since, is served
\* from the cache: it returns that answer and leaves the cache as it is,
\* whatever the store holds by now
C18_CacheHit ==
    [][/\ found' # found
       /\ Asked(found') \in DOMAIN answered
       /\ now < answered[Asked(found')].at + CacheTTL
       => /\ found'.cached /\ ~found'.error
          /\ found'.results = answered[Asked(found')].results
          /\ cache' = cache]_vars

\* a call is served from the cache although the store has changed and a
\* computation would answer something else
C18_Witness ==
    /\ found.cached
    /\ ~rebuilt
    /\ Asked(found) \in DOMAIN answered
    /\ now > answered[Asked(found)].at
    /\ Computed(Asked(found)).results # found.results

\* C19: after rebuild_indexes the cache holds no entry until the next search,
\* and the first search_hotels call for a key after a rebuild is computed
\* from the indexes and the store, not served from the cache
C19_RebuildClearsCache ==
    /\ [](answered = << >> => cache = << >>)
    /\ [][found' # found /\ Asked(found') \notin DOMAIN answered
           => /\ ~found'.cached
              /\ found'.results = Computed(Asked(found')).results
              /\ found'.error = Computed(Asked(found')).error]_vars

\* after a write and a rebuild, a search is computed and returns the hotel
\* that was written, some time after the first answer to the same query
C19_Witness ==
    /\ rebuilt
    /\ ~found.cached /\ ~found.error
    /\ \E k \in DOMAIN found.results : found.results[k].id = "s3"
    /\ DOMAIN answered = {Asked(found)}
    /\ now > 0

\* w is one of the whitespace-separated words of the str s
IsWord(w, s) ==
    \E i \in DOMAIN s, j \in DOMAIN s :
        /\ i <= j
        /\ SubSeq(s, i, j) = w
        /\ \A k \in i .. j : s[k] # " "
        /\ i = 1 \/ s[i - 1] = " "
        /\ j = Len(s) \/ s[j + 1] = " "

Stored == {search_db[k] : k \in DOMAIN search_db}

\* C20: after rebuild_indexes the city index maps every lower-cased city of
\* the store to exactly the hotels of that city, the name index maps every
\* lower-cased word of a name to exactly the hotels whose name has that word,
\* neither has another key, and a second rebuild changes neither
C20_IndexesMatchStore ==
    /\ [](rebuilt =>
            /\ DOMAIN city_index = {lower(h.city) : h \in Stored}
            /\ \A c \in DOMAIN city_index :
                  Listed(city_index[c]) = {h \in Stored : lower(h.city) = c}
            /\ \A h \in Stored : \A w \in DOMAIN name_index :
                  h \in Listed(name_index[w]) <=> IsWord(w, lower(h.name))
            /\ \A w \in DOMAIN name_index :
                  Listed(name_index[w]) \subseteq Stored /\ name_index[w] # << >>
            /\ \A h \in Stored :
                  {w \in {SubSeq(lower(h.name), i, j) :
                            i \in DOMAIN h.name, j \in DOMAIN h.name} :
                       IsWord(w, lower(h.name))} \subseteq DOMAIN name_index)
    /\ [][rebuilt /\ rebuilt' =>
            city_index' = city_index /\ name_index' = name_index]_vars

\* the indexes were rebuilt after the hotel s1 was replaced by one of another
\* city and name and a hotel was added
C20_Witness ==
    /\ rebuilt
    /\ Len(search_db) = Cardinality(HotelIds)
    /\ search_db[1].city = Go
    /\ lower(SeaInn) \notin DOMAIN name_index
    /\ lower(Goa) \in DOMAIN city_index

\* a step in which search_hotels returned: found is its answer afterwards
SearchStep ==
    found' # found \/ (answered' # answered /\ answered' # << >>)

\* the ids of the hotels of a result
Ids(results) == {results[k].id : k \in DOMAIN results}

\* C21: between two rebuilds, a search_hotels call returns the same set of
\* hotels as the last computation for the same (city, name, limit), whatever
\* expired and whatever was written to the store in between
C21_SameAnswerUntilRebuild ==
    [][SearchStep /\ Asked(found') \in DOMAIN answered /\ ~found'.error
       => Ids(found'.results) = Ids(answered[Asked(found')].results)]_vars

\* a result names no hotel twice
Distinct(results) ==
    \A i \in DOMAIN results, j \in DOMAIN results :
        results[i].id = results[j].id => i = j

\* a result holds, up to the limit, exactly the hotels of a set of ids: hotels
\* of the set only and none twice, all of them when the limit allows it, and
\* limit of them otherwise
UpTo(results, matches, limit) ==
    /\ Ids(results) \subseteq matches
    /\ Distinct(results)
    /\ limit >= 0 =>
          Len(results) = IF limit < Cardinality(matches) THEN limit
                         ELSE Cardinality(matches)

\* the hotels indexed at the last rebuild
Indexed == {indexed[k] : k \in DOMAIN indexed}

\* those whose city, as indexed, is the query's city but for the case
CityMatches(city) == {h.id : h \in {g \in Indexed : lower(g.city) = lower(city)}}

\* those with a word in their name, as indexed, that contains a word of the
\* query, both lower-cased
NameMatches(hotel_name) ==
    {h.id : h \in {g \in Indexed :
        \E qw \in {split(lower(hotel_name))[k] : k \in DOMAIN split(lower(hotel_name))} :
            \E i \in DOMAIN g.name, j \in DOMAIN g.name :
                /\ i <= j
                /\ IsWord(SubSeq(lower(g.name), i, j), lower(g.name))
                /\ contains(qw, SubSeq(lower(g.name), i, j))}}

\* C22: search_hotels with a city only returns, up to the limit, exactly the
\* hotels indexed at the last rebuild whose city equals the query's ignoring
\* case, whether the store was written since or not
C22_CityOnly ==
    [][SearchStep /\ ~falsy(found'.city) /\ falsy(found'.name)
       => /\ ~found'.error
          /\ UpTo(found'.results, CityMatches(found'.city), found'.limit)]_vars

\* a city-only search for "Go" answered with one of two hotels indexed under
\* that city, while hotels of Goa are indexed too
C22_Witness ==
    /\ found.city = Go /\ falsy(found.name) /\ ~found.error
    /\ found.results # << >>
    /\ CityMatches(Goa) # {}
    /\ Cardinality(CityMatches(Go)) > found.limit
    /\ Ids(found.results) \subseteq CityMatches(Go)

\* C23: search_hotels with a name only returns, up to the limit, exactly the
\* hotels indexed at the last rebuild that have a word in their name
\* containing one of the lower-cased words of the query: the union over the
\* query's words, and never a hotel whose word is merely part of a query word
C23_NameOnly ==
    [][SearchStep /\ falsy(found'.city) /\ ~falsy(found'.name)
       => /\ ~found'.error
          /\ UpTo(found'.results, NameMatches(found'.name), found'.limit)]_vars

\* a name-only search for "Se un" answered with a hotel matched by "se" and
\* one matched by "un", while a hotel that matches neither is indexed
C23_Witness ==
    /\ falsy(found.city) /\ found.name = SeUn /\ ~found.error
    /\ \E h \in Indexed : h.name = SeaInn /\ h.id \in Ids(found.results)
    /\ \E h \in Indexed : h.name = Sun /\ h.id \in Ids(found.results)
    /\ \E h \in Indexed : h.name = Inn /\ h.id \notin Ids(found.results)
    /\ Ids(found.results) = NameMatches(SeUn)

\* C24: search_hotels with a city and a name returns, up to the limit,
\* exactly the hotels that the city alone and the name alone both return on
\* the same indexes
C24_CityAndName ==
    [][SearchStep /\ ~falsy(found'.city) /\ ~falsy(found'.name)
       => /\ ~found'.error
          /\ UpTo(found'.results,
                  CityMatches(found'.city) \cap NameMatches(found'.name),
                  found'.limit)]_vars

\* a search with both filters answered with one hotel while the city alone
\* and the name alone each match another hotel too
C24_Witness ==
    /\ found.city = GOA /\ found.name = SeUn /\ ~found.error
    /\ Len(found.results) = 1
    /\ CityMatches(GOA) \ NameMatches(SeUn) # {}
    /\ NameMatches(SeUn) \ CityMatches(GOA) # {}
    /\ Ids(found.results) = CityMatches(GOA) \cap NameMatches(SeUn)

\* C25: search_hotels never returns more than limit hotels, computed or cached
C25_AtMostLimit ==
    [][SearchStep => Len(found'.results) <= found'.limit]_vars

\* C26: search_hotels with no filter returns the first limit hotels in the
\* order in which the last rebuild indexed the hotels
C26_NoFilter ==
    [][SearchStep /\ falsy(found'.city) /\ falsy(found'.name) /\ found'.limit >= 0
       => /\ ~found'.error
          /\ Len(found'.results) = IF found'.limit < Len(indexed) THEN found'.limit
                                  ELSE Len(indexed)
          /\ \A k \in DOMAIN found'.results : found'.results[k].id = indexed[k].id]_vars

\* a call that has decided and whose room exists and whose guest was let
\* through by the rate limiter
Decided(t) ==
    /\ pc[t] = "release"
    /\ req[t].room_id \in DOMAIN rooms
    /\ result[t] # "rate"

C29_CreatedRoomsResolve ==
    \A k \in DOMAIN hotel_db.hotels :
        hotel_db.hotels[k] \in PostedHotels =>
            \A r \in hotel_db.hotels[k].rooms :
                /\ get_room_by_id(hotel_db, r) # None
                /\ \A t \in Threads : req[t].room_id = r => result[t] # "notfound"

\* C30: the rate-limit state is read and written in the critical section of
\* create_booking only: the thread at the rate check holds the lock alone, and
\* every step that changes the state is the rate check of the lock holder, on
\* the entry of its guest; cancel_booking leaves it alone
C30_RateStateUnderLock ==
    /\ [](\A t \in Threads :
            pc[t] = "rate" =>
                /\ booking_lock
                /\ \A u \in Threads \ {t} : ~InCriticalSection(u))
    /\ [][requests_by_email' # requests_by_email =>
            /\ booking_lock
            /\ \E t \in Threads :
                  /\ pc[t] = "rate" /\ pc'[t] # "rate"
                  /\ \A e \in Emails \ {req[t].guest_email} :
                        requests_by_email'[e] = requests_by_email[e]]_vars

\* a thread is at its rate check with the lock held while another waits for
\* the lock, after a call was recorded and a booking was cancelled
C30_Witness ==
    /\ booking_lock
    /\ \E t \in Threads, u \in Threads : pc[t] = "rate" /\ pc[u] = "lock"
    /\ \E e \in Emails : requests_by_email[e] # << >>
    /\ \E b \in DOMAIN bookings : bookings[b].status = CANCELLED

\* a booking's guest name contains the filter, whatever the case of either
NameHas(b, guest_name) ==
    \E i \in 1 .. Len(chars(b.guest_name)) + 1, j \in 0 .. Len(chars(b.guest_name)) :
        lower(SubSeq(chars(b.guest_name), i, j)) = lower(guest_name)

\* ids is the answer get_bookings owes for a filter on a store: every stored
\* booking that the filter keeps, whatever its status, once each, and none
\* before a booking created later
Listing(ids, bks, guest_name) ==
    /\ \A k \in DOMAIN ids : ids[k] \in DOMAIN bks
    /\ {ids[k] : k \in DOMAIN ids} =
          {i \in DOMAIN bks : guest_name \in {None, << >>} \/ NameHas(bks[i], guest_name)}
    /\ \A k \in DOMAIN ids, l \in DOMAIN ids : ids[k] = ids[l] => k = l
    /\ \A k \in DOMAIN ids, l \in DOMAIN ids :
          k < l => bks[ids[k]].created_at >= bks[ids[l]].created_at

\* C31: get_bookings returns every stored booking, Confirmed or Cancelled,
\* whose guest name contains the filter as a case-insensitive substring, or
\* all of them without a filter, the most recently created first
C31_Listing ==
    /\ [](\A f \in Filters : Listing(get_bookings(bookings, f), bookings, f))
    /\ [][listing' # listing
            => Listing(listing'.results, bookings, listing'.guest_name)]_vars

\* the filter "AS" has returned two bookings of Asha, the later one first and
\* one of them cancelled, while a booking of Bala is in the store
C31_Witness ==
    /\ listing.guest_name = <<"A", "S">>
    /\ Len(listing.results) = 2
    /\ listing.results = get_bookings(bookings, listing.guest_name)
    /\ listing.results[1] > listing.results[2]
    /\ bookings[listing.results[1]].created_at > bookings[listing.results[2]].created_at
    /\ \E k \in DOMAIN listing.results : bookings[listing.results[k]].status = CANCELLED
    /\ \E i \in DOMAIN bookings : bookings[i].guest_name = "Bala"

\* the checks of create_booking, each on its own, for the call of thread t:
\* against the rate-limit timestamps and the bookings it found when it got the
\* lock, and the clock values it read
RateFails(t) ==
    Cardinality({k \in DOMAIN snap[t].rl[req[t].guest_email] :
                    snap[t].rl[req[t].guest_email][k] >= loc[t].now - RateLimitWindow})
        >= RateLimitMax

RoomFails(t) == req[t].room_id \notin DOMAIN rooms

RangeFails(t) == req[t].check_out_date < req[t].check_in_date

PastFails(t) == req[t].check_in_date < loc[t].today

ConflictFails(t) ==
    \E i \in DOMAIN snap[t].bookings :
        /\ snap[t].bookings[i].room_id = req[t].room_id
        /\ snap[t].bookings[i].status = CONFIRMED
        /\ Conflict(snap[t].bookings[i].check_in_date, snap[t].bookings[i].check_out_date,
                    req[t].check_in_date, req[t].check_out_date)

\* C32: create_booking reports the first check that fails, in the order rate
\* limit, room not found, invalid range, past date, conflict, and succeeds
\* when none fails
C32_FirstFailingCheck ==
    \A t \in Threads :
        pc[t] = "release" =>
            result[t] = IF RateFails(t) THEN "rate"
                        ELSE IF RoomFails(t) THEN "notfound"
                        ELSE IF RangeFails(t) THEN "range"
                        ELSE IF PastFails(t) THEN "past"
                        ELSE IF ConflictFails(t) THEN "conflict"
                        ELSE "ok"

\* a request for an unknown room with an inverted range ends with "Room not
\* found", after an earlier call has stored a booking
C32_Witness ==
    \E t \in Threads :
        /\ pc[t] = "release" /\ result[t] = "notfound"
        /\ RoomFails(t) /\ RangeFails(t) /\ ~RateFails(t)
        /\ bookings # << >>

\* an inverted range that starts in the past ends with the invalid-range error
C32_RangeBeforePast ==
    \E t \in Threads :
        /\ pc[t] = "release" /\ result[t] = "range"
        /\ RangeFails(t) /\ PastFails(t)

\* a request that fails the room check is refused by the rate limiter
C32_RateBeforeRoom ==
    \E t \in Threads :
        /\ pc[t] = "release" /\ result[t] = "rate"
        /\ RoomFails(t) /\ RangeFails(t)

\* a stay in the past that overlaps a confirmed booking ends with the
\* past-date error
C32_PastBeforeConflict ==
    \E t \in Threads :
        /\ pc[t] = "release" /\ result[t] = "past"
        /\ PastFails(t) /\ ConflictFails(t)

\* C33: a booking enters the store as Confirmed, in the step in which
\* create_booking succeeds; afterwards its status stays as it is or goes from
\* Confirmed to Cancelled; no booking is ever Pending
C33_Lifecycle ==
    /\ [](\A i \in DOMAIN bookings : bookings[i].status \in {CONFIRMED, CANCELLED})
    /\ [][\A i \in DOMAIN bookings' :
            IF i \in DOMAIN bookings
            THEN \/ bookings'[i].status = bookings[i].status
                 \/ bookings[i].status = CONFIRMED /\ bookings'[i].status = CANCELLED
            ELSE /\ bookings'[i].status = CONFIRMED
                 /\ \E t \in Threads :
                       /\ result[t] = "none" /\ result'[t] = "ok"
                       /\ ret'[t] = i]_vars

\* a call has just succeeded and its booking is Confirmed, while an earlier
\* booking of the same room and range is Cancelled
C33_Witness ==
    \E t \in Threads :
        /\ pc[t] = "release" /\ result[t] = "ok"
        /\ ret[t] \in DOMAIN bookings
        /\ bookings[ret[t]].status = CONFIRMED
        /\ \E i \in DOMAIN bookings :
              /\ i < ret[t]
              /\ bookings[i].status = CANCELLED
              /\ bookings[i].room_id = bookings[ret[t]].room_id
              /\ bookings[i].check_in_date = bookings[ret[t]].check_in_date

\* C34: a search_hotels call made more than the TTL after the answer for its
\* query was stored is not served from the cache: it computes the answer
\* from the indexes and the store as they are and stores it with an expiry
\* of now + TTL in place of the old entry; and no call is served an entry
\* whose expiry time has passed
C34_ExpiredRecomputed ==
    /\ [][/\ SearchStep
           /\ Asked(found') \in DOMAIN answered
           /\ now > answered[Asked(found')].at + CacheTTL
           => /\ ~found'.cached /\ found'.expired
              /\ found'.results = Computed(Asked(found')).results
              /\ LET key == cache_key(found'.city, found'.name, found'.limit)
                 IN  /\ key \in DOMAIN cache'
                     /\ cache'[key] = [results |-> found'.results,
                                       expires_at |-> now + CacheTTL]]_vars
    /\ [][SearchStep /\ found'.cached
           => LET key == cache_key(found'.city, found'.name, found'.limit)
              IN  key \in DOMAIN cache /\ now <= cache[key].expires_at]_vars

\* a call has found an expired entry and returned an answer that the entry
\* could not hold: a hotel written to the store after the entry was stored
C34_Witness ==
    /\ found.expired /\ ~found.cached /\ ~found.error
    /\ falsy(found.city) /\ falsy(found.name)
    /\ \E k \in DOMAIN found.results : found.results[k].id = "s3"
    /\ Asked(found) \in DOMAIN answered
    /\ answered[Asked(found)].at = now
    /\ now > CacheTTL

\* C35: a request whose check-in date equals its check-out date is rejected
\* and creates no booking
C35_SameDayRejected ==
    /\ \A t \in Threads :
          pc[t] = "release" /\ req[t].check_in_date = req[t].check_out_date
              => result[t] # "ok"
    /\ \A i \in DOMAIN bookings :
          bookings[i].check_in_date # bookings[i].check_out_date

\* C36: of the attempts of one email, at most 5 in any span of 60 seconds
\* passed the rate-limit check, however many were made and refused, and the
\* email's list never holds more than 5 timestamps
C36_AtMostFiveAdmitted ==
    \A e \in Emails :
        /\ Len(requests_by_email[e]) <= RateLimitMax
        /\ \A i \in DOMAIN attempts[e] :
              Cardinality({j \in DOMAIN attempts[e] :
                              /\ attempts[e][j].outcome # "rate"
                              /\ attempts[e][j].at >= attempts[e][i].at
                              /\ attempts[e][j].at <= attempts[e][i].at + RateLimitWindow})
                  <= RateLimitMax

\* five attempts of an email were admitted and two retries were refused, all
\* within 60 seconds
C36_Witness ==
    \E e \in Emails :
        /\ Earlier(attempts[e], {"rejected", "ok"}) = RateLimitMax
        /\ Earlier(attempts[e], {"rate"}) >= 2
        /\ Len(requests_by_email[e]) = RateLimitMax
        /\ \A t \in Threads : pc[t] = "idle"

\* C37: an attempt is admitted by the rate limiter whenever fewer than 5 of
\* the email's admitted attempts lie in the trailing 60 seconds, whatever
\* number of attempts the limiter refused in that time
C37_WindowReleases ==
    [][\A t \in Threads :
         /\ pc[t] = "rate" /\ pc'[t] # "rate"
         /\ Len(SelectSeq(attempts[req[t].guest_email],
                          LAMBDA x : x.outcome \in {"rejected", "ok"}
                                     /\ x.at >= now - RateLimitWindow)) < RateLimitMax
         => result'[t] # "rate" /\ pc'[t] = "validate"]_vars

\* a guest is admitted while an attempt of theirs that the limiter refused is
\* less than 60 seconds old
C37_Witness ==
    \E t \in Threads :
        /\ pc[t] = "validate"
        /\ \E i \in DOMAIN attempts[req[t].guest_email] :
              /\ attempts[req[t].guest_email][i].outcome = "rate"
              /\ attempts[req[t].guest_email][i].at > now - RateLimitWindow
        /\ Len(requests_by_email[req[t].guest_email]) < RateLimitMax

\* C38: once rebuild_indexes has returned (and until the store is written
\* again), every entry of the cache holds an answer computed from the fully
\* rebuilt indexes: the hotels indexed under the entry's city, up to its limit
C38_NoTornCacheEntry ==
    rebuilding.pc = "idle" /\ rebuilt =>
        \A key \in DOMAIN cache :
            UpTo(cache[key].results, CityMatches(key.city), key.limit)

\* C39: every exit of create_booking, by return or by raise, leaves the lock
\* free, and under fair scheduling every call gets the lock, decides and ends
C39_LockReleased ==
    /\ [][\A t \in Threads : pc[t] = "release" /\ pc'[t] = "idle" => ~booking_lock']_vars
    /\ \A t \in Threads : pc[t] = "lock" ~> (pc[t] = "release" /\ booking_lock)
    /\ \A t \in Threads : pc[t] # "idle" ~> pc[t] = "idle"

\* a call has got the lock and is being rejected while the other thread, whose
\* earlier call was rejected too, waits for the lock
C39_Witness ==
    \E t \in Threads :
        /\ pc[t] = "release" /\ result[t] \notin {"ok", "none"}
        /\ booking_lock
        /\ \E u \in Threads \ {t} : pc[u] = "lock"
        /\ bookings = << >>
        /\ \E e \in Emails \ {req[t].guest_email} :
              Earlier(attempts[e], {"rejected"}) >= 1

====
